---- MODULE Spec2Model ----
(***************************************************************************)
(* Asynchronous job lifecycle of claude-async-api: the llm_requests table, *)
(* the process-queue worker handler, the queue-request dispatcher and the  *)
(* request-status lookup and the webhook-monitor reconciliation run, as    *)
(* state machines over one shared job store.                               *)
(*                                                                         *)
(* Every `await` on the store or on the network in a handler is one step:  *)
(* between two steps of one invocation any other invocation may run.       *)
(* Time is in seconds; the clock advances in steps of TimeStep.            *)
(* A store write fails only where the handler inspects its result; resp is *)
(* the response sent by the step just taken (NoResp when it sent none).    *)
(***************************************************************************)
EXTENDS Integers, Sequences, FiniteSets, TLC

\* ------------------------------------------------------------------ bounds
MaxTime == 2400
TimeStep == 600

\* the raw responses the formatter is run on: blocks per response, pieces per
\* text, entries per citations array; and the runs on one response
MaxBlocks == 2

MaxPieces == 2

MaxCitations == 2

MaxRuns == 2

\* the clock step, in seconds, while a monitor run works through its batches
BatchStep == 35

JobIds == {"j1"}
Workers == {"w1", "w2"}
Monitors == {"m1", "m2"}

\* ------------------------------------------------------- program constants
\* processingTime < 1200000 ms (20 minutes)
StuckThresholdSec == 1200
\* export const config = { maxDuration: 800 }
maxDuration == 800

\* webhook-monitor: const config = { maxDuration: 120 }
monitorMaxDuration == 120
\* twoMinutesAgo = Date.now() - 2 * 60 * 1000
GraceSec == 120
\* thirtyMinutesAgo = Date.now() - 30 * 60 * 1000
RetentionSec == 1800
\* .lt('webhook_retry_count', 3)
MaxWebhookRetries == 3
\* body: { requestId, status: 'completed' } of both senders
PushStatus == "completed"

\* SQL NULL of a timestamp column / of a json or text column
NoTime == 0 - 1
NoVal == "null"

\* error.message values the worker's catch block can store
ErrNotFound == "Request not found"
ErrUpstream == "Claude API error"
ErrDbUpdate == "Database update failed"
ErrNormalizer == "Cannot set properties of null"
ErrWebhook == "Direct webhook error"
ErrRetryStatus == "Webhook retry failed with status"

\* the messages of the worker's early returns
MsgCompleted == "Request already completed"
MsgFailed == "Request previously failed"
MsgBusy == "Request currently being processed"

\* the processed response stored in response_payload
Processed == "processedResponse"

VARIABLES
    jobs,        \* the llm_requests table: request_id -> row
    now,         \* Date.now(), seconds
    workers,     \* the process-queue invocations in flight
    upstream,    \* per job: callClaudeAPI calls started, by the status the invocation had read
    pushes,      \* per job: webhook pushes sent by the worker
    resp,        \* the HTTP response the last step sent, NoResp if it sent none
    monitors,    \* the webhook-monitor invocations in flight
    retryPushes, \* per job: webhook pushes sent by the monitor
    receiver,    \* whether the callback receiver answers a push with 2xx
    delivered,   \* per job: some push was answered 2xx
    lastPushAt,  \* when the last push (of either sender) was sent
    calls,       \* per worker: the retry loop of its callClaudeAPI call
    trigger,     \* per job: what became of the dispatcher's auto-trigger
    claudeResponse, \* the raw response handed to the citation formatter
    formatted,   \* what the runs of formatCitationsInPlace on it returned
    normInput,   \* the raw response and request payload handed to the normalizer
    normalized   \* what processClaudeResponseWithSizeControl returned for them

vars == <<jobs, now, workers, upstream, pushes, resp,
          monitors, retryPushes, receiver, delivered, lastPushAt, calls,
          trigger, claudeResponse, formatted, normInput, normalized>>

\* the variables of the delivery side
dvars == <<monitors, retryPushes, receiver, delivered, lastPushAt>>

\* the variables of the response normalizer
cvars == <<claudeResponse, formatted, normInput, normalized>>

\* ------------------------------------------------------- request payloads
\* the shape of request_payload as callClaudeAPI inspects it: whether it has
\* a claudeRequest, whether that has a model, and what its messages are
Payload(request, model, messages) ==
    [ claudeRequest |-> request, model |-> model, messages |-> messages ]

ValidPayload == Payload(TRUE, TRUE, "some")

Payloads ==
    { ValidPayload,
      Payload(FALSE, FALSE, "missing"),
      Payload(TRUE, FALSE, "some"),
      Payload(TRUE, TRUE, "missing"),
      Payload(TRUE, TRUE, "notarray"),
      Payload(TRUE, TRUE, "empty") }

\* ValidationError without the check of the model field
ValidationError_NoModelCheck(p) ==
    IF ~p.claudeRequest THEN "No claudeRequest found in payload"
    ELSE IF p.messages \in {"missing", "notarray"}
         THEN "Invalid claudeRequest: messages must be an array"
    ELSE IF p.messages = "empty"
         THEN "Invalid claudeRequest: messages array is empty"
    ELSE NoVal

\* NoVal when callClaudeAPI's input validation passes, else the message of
\* the error it throws, in the order of its checks
ValidationError(p) ==
    IF ~p.claudeRequest THEN "No claudeRequest found in payload"
    ELSE IF ~p.model THEN "Invalid claudeRequest: missing model field"
    ELSE IF p.messages \in {"missing", "notarray"}
         THEN "Invalid claudeRequest: messages must be an array"
    ELSE IF p.messages = "empty"
         THEN "Invalid claudeRequest: messages array is empty"
    ELSE NoVal

\* the body of a submission: which of the required fields it carries
Bodies ==
    [ requestId : BOOLEAN, codaWebhookUrl : BOOLEAN, codaApiToken : BOOLEAN ]

\* RequiredPresent without the check of the callback token
RequiredPresent_NoToken(body) == body.requestId /\ body.codaWebhookUrl

\* if (!requestId || !codaWebhookUrl || !codaApiToken) -> 400
RequiredPresent(body) ==
    body.requestId /\ body.codaWebhookUrl /\ body.codaApiToken

\* what the dispatcher's fire-and-forget trigger can come to: the worker is
\* invoked, the trigger request fails, or it is never delivered
TriggerFates == {"delivered", "failed", "lost"}

\* AckCode of a dispatcher that awaits its trigger and reports its failure
AckCode_Awaits(trig) == IF trig = "delivered" THEN 200 ELSE 500

\* the status the dispatcher answers with after firing the trigger: the
\* fetch is not awaited, the answer does not depend on it
AckCode(trig) == 200

\* ------------------------------------------------------------------- rows
\* a row as queue-request inserts it: only request_id, payload, url, token
\* and status are given, every other column takes its default
NewRow(t) ==
    [ status |-> "queued",
      response_payload |-> NoVal,
      error_message |-> NoVal,
      created_at |-> t,
      processing_started_at |-> NoTime,
      completed_at |-> NoTime,
      fetched_at |-> NoTime,
      webhook_retry_count |-> 0,
      last_webhook_retry_at |-> NoTime,
      request_payload |-> ValidPayload ]

\* supabase .update(patch).eq('request_id', id): patches the row when it
\* exists, touches nothing otherwise
Update(tbl, id, patch) ==
    IF id \in DOMAIN tbl
    THEN [tbl EXCEPT ![id] =
            [f \in DOMAIN tbl[id] |->
                IF f \in DOMAIN patch THEN patch[f] ELSE tbl[id][f]]]
    ELSE tbl

\* -------------------------------------------------------------- responses
NoBody ==
    [ status |-> "none", createdAt |-> NoTime, processingStartedAt |-> NoTime,
      completedAt |-> NoTime, errorMessage |-> NoVal, response |-> NoVal ]

Response(op, id, code, msg, body) ==
    [ op |-> op, id |-> id, code |-> code, msg |-> msg, body |-> body ]

NoResp == Response("none", "none", 0, NoVal, NoBody)

\* ----------------------------------------------------------------- workers
\* pc: the await the invocation is at; seen: request.status as the select
\* returned it; start: when the invocation began; err: the error thrown
IdleWorker == [ pc |-> "idle", id |-> "none", seen |-> "none",
                start |-> 0, err |-> NoVal ]

\* the platform stops an invocation that has run for maxDuration seconds
Alive(w) == now - workers[w].start < maxDuration

\* IsBusy with the 5-minute threshold of the handler's earlier revisions
IsBusy_5min(request, t) ==
    /\ request.status = "processing"
    /\ t - request.processing_started_at < 300

\* if (request.status === 'processing') { processingTime < 1200000 -> 409 }
IsBusy(request, t) ==
    /\ request.status = "processing"
    /\ t - request.processing_started_at < StuckThresholdSec

\* Decide that answers busy for a queued row older than the stuck threshold
Decide_QueuedExpires(found, request, t) ==
    IF ~found THEN "notfound"
    ELSE IF request.status = "completed" THEN "completed"
    ELSE IF request.status = "failed" THEN "failed"
    ELSE IF IsBusy(request, t) THEN "busy"
    ELSE IF request.status = "queued" /\ t - request.created_at >= StuckThresholdSec
         THEN "busy"
    ELSE "mark"

\* Decide without the `status === 'failed'` early return
Decide_NoFailedCheck(found, request, t) ==
    IF ~found THEN "notfound"
    ELSE IF request.status = "completed" THEN "completed"
    ELSE IF IsBusy(request, t) THEN "busy"
    ELSE "mark"

\* the handler's checks after the select, in order: which branch it takes
Decide(found, request, t) ==
    IF ~found THEN "notfound"
    ELSE IF request.status = "completed" THEN "completed"
    ELSE IF request.status = "failed" THEN "failed"
    ELSE IF IsBusy(request, t) THEN "busy"
    ELSE "mark"

\* MarkPatch without the processing_started_at column
MarkPatch_NoStart(t) ==
    [ status |-> "processing", error_message |-> NoVal ]

\* .update({status:'processing', processing_started_at: now, error_message: null})
MarkPatch(t) ==
    [ status |-> "processing", processing_started_at |-> t,
      error_message |-> NoVal ]

\* .update({status:'completed', response_payload, completed_at: now})
CompletePatch(t) ==
    [ status |-> "completed", response_payload |-> Processed,
      completed_at |-> t ]

\* .update({status:'failed', error_message: error.message, completed_at: now})
\* FailPatch of a catch block that stores the error and leaves the status
FailPatch_NoStatus(msg, t) ==
    [ error_message |-> msg, completed_at |-> t ]

FailPatch(msg, t) ==
    [ status |-> "failed", error_message |-> msg, completed_at |-> t ]

\* request_id is the primary key: inserting an id that has a row fails
\* InsertFails of a store that accepts an insert whatever rows it holds
InsertFails_Never(tbl, id) == FALSE

InsertFails(tbl, id) == id \in DOMAIN tbl

\* Projection without response_payload, as the handler's other revision
Projection_NoPayload(row) ==
    [ status |-> row.status,
      createdAt |-> row.created_at,
      processingStartedAt |-> row.processing_started_at,
      completedAt |-> row.completed_at,
      errorMessage |-> row.error_message,
      response |-> NoVal ]

\* the projection request-status returns for a row
Projection(row) ==
    [ status |-> row.status,
      createdAt |-> row.created_at,
      processingStartedAt |-> row.processing_started_at,
      completedAt |-> row.completed_at,
      errorMessage |-> row.error_message,
      response |-> row.response_payload ]

\* request-status: a select, 404 when no row, else the projection; no write
StatusEffect(id) ==
    /\ resp' = IF id \in DOMAIN jobs
               THEN Response("status", id, 200, NoVal, Projection(jobs[id]))
               ELSE Response("status", id, 404, "Request not found", NoBody)
    /\ UNCHANGED jobs

\* ------------------------------------------------------------ callClaudeAPI
\* const maxRetries = 2: 3 attempts
maxRetries == 2

\* what one fetch of the retry loop ends with: a response (its status, and
\* for a 2xx whether the body has a content field) or a thrown error
Http(status, content) ==
    [ kind |-> "response", status |-> status, content |-> content ]

FetchError(name) == [ kind |-> name, status |-> 0, content |-> FALSE ]

\* AbortError: the 11-minute timeout; NetworkError: a TypeError whose message
\* includes 'fetch'; OtherError: any other thrown error
Outcomes ==
    { Http(200, TRUE), Http(200, FALSE), Http(400, FALSE), Http(429, FALSE),
      Http(501, FALSE), Http(503, FALSE),
      FetchError("AbortError"), FetchError("NetworkError"),
      FetchError("OtherError") }

\* Math.min(1000 * Math.pow(2, attempt - 1), 5000)
Backoff(attempt) ==
    LET ms == 1000 * 2 ^ (attempt - 1)
    IN  IF ms < 5000 THEN ms ELSE 5000

\* AttemptResult of a call without the retry loop: every failure is thrown
AttemptResult_NoRetry(out, attempt) ==
    IF out.kind = "response" /\ out.status >= 200 /\ out.status < 300
       /\ out.content
    THEN "return"
    ELSE "throw"

\* AttemptResult that treats a client error like a server error
AttemptResult_Retry4xx(out, attempt) ==
    IF out.kind = "response"
    THEN IF out.status >= 200 /\ out.status < 300
         THEN IF out.content THEN "return" ELSE "throw"
         ELSE IF attempt >= maxRetries THEN "throw" ELSE "retry"
    ELSE IF out.kind \in {"AbortError", "NetworkError"} /\ attempt < maxRetries
         THEN "retry"
         ELSE "throw"

\* how iteration `attempt` (0, 1, 2) of the loop ends for an outcome: the
\* call returns, the call throws, or the loop goes on to the next attempt.
\* An error thrown inside the try block (invalid body, client error, last
\* attempt) is caught by catch (fetchError), which rethrows whatever is
\* neither a timeout nor a network error
AttemptResult(out, attempt) ==
    IF out.kind = "response"
    THEN IF out.status >= 200 /\ out.status < 300
         THEN IF out.content THEN "return" ELSE "throw"
         ELSE IF out.status >= 400 /\ out.status < 500 /\ out.status # 429
         THEN "throw"
         ELSE IF attempt >= maxRetries THEN "throw" ELSE "retry"
    ELSE IF out.kind \in {"AbortError", "NetworkError"} /\ attempt < maxRetries
         THEN "retry"
         ELSE "throw"

\* const timeoutMs = 660000: the abort timer armed for each fetch
timeoutMs == 660000

\* the least time a fetch with this outcome has taken (ms): an AbortError is
\* raised by the timer, timeoutMs after the fetch began
OutcomeMs(out) == IF out.kind = "AbortError" THEN timeoutMs ELSE 0

RECURSIVE SumMs(_)
SumMs(seq) == IF seq = << >> THEN 0 ELSE Head(seq) + SumMs(Tail(seq))

\* the least time the loop of call c has run: its backoff waits and fetches
CallElapsedMs(c) ==
    SumMs(c.delays) + SumMs([i \in 1..Len(c.outs) |-> OutcomeMs(c.outs[i])])

\* when the loop of call c ends at the latest, counted from its start: a
\* loop that goes on to another attempt waits its backoff and arms a new
\* timer of timeoutMs for the fetch
CallDeadlineMs(c) ==
    CallElapsedMs(c)
    + IF c.done THEN 0 ELSE Backoff(Len(c.outs)) + timeoutMs

\* the loop of one call: outs: how the fetches made so far ended; delays:
\* the backoff waits made so far (ms); done: the call has returned or thrown
IdleCall == [ outs |-> << >>, delays |-> << >>, done |-> TRUE ]

\* ------------------------------------------------- formatCitationsInPlace
\* a text is a sequence of pieces: plain text s; a cite tag
\* <cite index="idx">s</cite> (esc: written with \" for "); and in a
\* formatted text a marker [^n] or a line "[^n]: s" of the Sources block
Piece(k, esc, idx, s, n) == [ k |-> k, esc |-> esc, idx |-> idx, s |-> s, n |-> n ]

Plain(s) == Piece("plain", FALSE, "", s, 0)

Cite(esc, idx, s) == Piece("cite", esc, idx, s, 0)

Marker(n) == Piece("marker", FALSE, "", "", n)

\* an entry of item.citations as the formatter reads it: url and title
\* (either may be missing)
CitationObj(url, title) == [ url |-> url, title |-> title ]

\* a content block: a text block with its text and citations array, or a
\* block of another type
TextItem(text, citations) ==
    [ type |-> "text", text |-> text, citations |-> citations ]

OtherItem == [ type |-> "tool_use", text |-> << >>, citations |-> << >> ]

RawResponse(content) == [ hasContent |-> TRUE, content |-> content ]

\* no response yet, or one without a content array
NoResponse == [ hasContent |-> FALSE, content |-> << >> ]

DocKey(idx) == "doc:" \o idx

\* const map = new Map(): kept as the sequence of its entries in insertion
\* order; map.has(key), map.get(key)
Has(map, key) == \E i \in 1..Len(map) : map[i].key = key

Get(map, key) == map[CHOOSE i \in 1..Len(map) : map[i].key = key]

\* if (!map.has(key)) map.set(key, { n: n++, title, url, text, kind }):
\* n starts at 1 and is incremented by each set
SetIfNew(map, key, title, url, text, kind) ==
    IF Has(map, key)
    THEN map
    ELSE Append(map, [ key |-> key, n |-> Len(map) + 1, title |-> title,
                       url |-> url, text |-> text, kind |-> kind ])

\* while ((m = reg.exec(item.text)) !== null): the tags of one form, in
\* the order of the text
RECURSIVE CollectTags(_, _, _)
CollectTags(map, text, esc) ==
    IF text = << >>
    THEN map
    ELSE LET t == Head(text)
         IN  CollectTags(IF t.k = "cite" /\ t.esc = esc
                         THEN SetIfNew(map, DocKey(t.idx), "Source " \o t.idx,
                                       NoVal, t.s, "doc")
                         ELSE map,
                         Tail(text), esc)

\* for (const c of item.citations): entries without a url are skipped
RECURSIVE CollectCitations(_, _)
CollectCitations(map, citations) ==
    IF citations = << >>
    THEN map
    ELSE LET c == Head(citations)
         IN  CollectCitations(IF c.url = NoVal
                              THEN map
                              ELSE SetIfNew(map, c.url,
                                            IF c.title = NoVal THEN "Source"
                                            ELSE c.title,
                                            c.url, "", "web"),
                              Tail(citations))

\* one block of the collect loop: the escaped tags, then the plain tags,
\* then the citations array
CollectItem(map, item) ==
    IF item.type # "text"
    THEN map
    ELSE CollectCitations(
             CollectTags(CollectTags(map, item.text, TRUE), item.text, FALSE),
             item.citations)

RECURSIVE Collect(_, _)
Collect(map, content) ==
    IF content = << >>
    THEN map
    ELSE Collect(CollectItem(map, Head(content)), Tail(content))

\* t.replace(reg, ...): each tag becomes its cited text followed by the
\* marker of its entry
RECURSIVE MarkTags(_, _)
MarkTags(map, text) ==
    IF text = << >>
    THEN << >>
    ELSE LET t == Head(text)
         IN  ( IF t.k # "cite"
               THEN << t >>
               ELSE IF Has(map, DocKey(t.idx))
               THEN << Plain(t.s), Marker(Get(map, DocKey(t.idx)).n) >>
               ELSE << Plain(t.s) >> )
             \o MarkTags(map, Tail(text))

\* item.citations.map(c => map.get(c.url)).filter(Boolean).map(marker)
RECURSIVE CitationMarkers(_, _)
CitationMarkers(map, citations) ==
    IF citations = << >>
    THEN << >>
    ELSE LET c == Head(citations)
         IN  ( IF c.url # NoVal /\ Has(map, c.url)
               THEN << Marker(Get(map, c.url).n) >>
               ELSE << >> )
             \o CitationMarkers(map, Tail(citations))

MarkItem(map, item) ==
    IF item.type # "text"
    THEN item
    ELSE [item EXCEPT !.text = MarkTags(map, item.text)
                               \o CitationMarkers(map, item.citations)]

\* [...map.values()].sort((a, b) => a.n - b.n)
SortedByN(map) ==
    [i \in 1..Len(map) |-> map[CHOOSE j \in 1..Len(map) : map[j].n = i]]

\* a line of the Sources block: [^n]: [title](url) or [^n]: cited text
SourceLine(c) ==
    Piece("source", FALSE, "",
          IF c.kind = "web" THEN "[" \o c.title \o "](" \o c.url \o ")"
          ELSE c.text,
          c.n)

SourcesHeader == Plain("**Sources:**")

\* the block pushed at the end: the header and one line per entry
SourcesItem(map) ==
    LET sorted == SortedByN(map)
    IN  TextItem(<< SourcesHeader >>
                 \o [i \in 1..Len(sorted) |-> SourceLine(sorted[i])], << >>)

formatCitationsInPlace(raw) ==
    IF ~raw.hasContent
    THEN raw
    ELSE LET map == Collect(<< >>, raw.content)
         IN  IF Len(map) = 0
             THEN raw
             ELSE [raw EXCEPT !.content =
                      [i \in 1..Len(raw.content) |->
                          MarkItem(map, raw.content[i])]
                      \o << SourcesItem(map) >>]

\* a formatter that rewrites the object it was given
ArgumentAfterFormat_InPlace(raw) == formatCitationsInPlace(raw)

\* what the caller's object holds after the call: the formatter works on
\* { ...resp, content: resp.content.map(x => ({ ...x })) }, builds new arrays
\* and new items, and leaves its argument as it was
ArgumentAfterFormat(raw) == raw

\* the citation sources a block refers to, in the order of the block: the
\* index of each cite tag of its text, then the url of each entry of its
\* citations array that has one
TextKeys(text) ==
    LET tags == SelectSeq(text, LAMBDA t : t.k = "cite")
    IN  [i \in 1..Len(tags) |-> DocKey(tags[i].idx)]

CitationKeys(citations) ==
    LET webs == SelectSeq(citations, LAMBDA c : c.url # NoVal)
    IN  [i \in 1..Len(webs) |-> webs[i].url]

ItemKeys(item) ==
    IF item.type = "text"
    THEN TextKeys(item.text) \o CitationKeys(item.citations)
    ELSE << >>

\* the sources of a response in the order its blocks refer to them
RECURSIVE ContentKeys(_)
ContentKeys(content) ==
    IF content = << >>
    THEN << >>
    ELSE ItemKeys(Head(content)) \o ContentKeys(Tail(content))

\* each key once, at the place of its first occurrence
RECURSIVE FirstSeen(_)
FirstSeen(keys) ==
    IF keys = << >>
    THEN << >>
    ELSE << Head(keys) >>
         \o FirstSeen(SelectSeq(Tail(keys), LAMBDA x : x # Head(keys)))

NumberOf(K, key) == CHOOSE n \in 1..Len(K) : K[n] = key

\* the numbers of the markers of a formatted text, in the order of the text
MarkerNumbers(text) ==
    LET ms == SelectSeq(text, LAMBDA t : t.k = "marker")
    IN  [i \in 1..Len(ms) |-> ms[i].n]

\* a line of the Sources block names the source `key` of response raw: the
\* title and url of a citation entry with that url, or the cited text of a
\* tag with that index
LineNames(line, key, raw) ==
    \E i \in 1..Len(raw.content) :
        LET item == raw.content[i]
        IN  \/ \E j \in 1..Len(item.citations) :
                  LET c == item.citations[j]
                  IN  /\ c.url = key
                      /\ line.s = "[" \o (IF c.title = NoVal THEN "Source"
                                          ELSE c.title)
                                  \o "](" \o c.url \o ")"
            \/ \E j \in 1..Len(item.text) :
                  LET t == item.text[j]
                  IN  /\ t.k = "cite"
                      /\ DocKey(t.idx) = key
                      /\ line.s = t.s

\* the raw responses: up to MaxBlocks blocks, a text of up to MaxPieces
\* pieces and up to MaxCitations citation entries per text block
SeqsUpTo(S, n) == UNION { [1..k -> S] : k \in 0..n }

Pieces ==
    { Plain("p"), Cite(FALSE, "1", "a"), Cite(FALSE, "2", "b"),
      Cite(TRUE, "2", "c") }

CitationObjs ==
    { CitationObj("u1", "T1"), CitationObj("u2", NoVal),
      CitationObj(NoVal, "D") }

Items ==
    { TextItem(t, c) : t \in SeqsUpTo(Pieces, MaxPieces),
                       c \in SeqsUpTo(CitationObjs, MaxCitations) }
    \cup { OtherItem }

RawResponses == { RawResponse(c) : c \in SeqsUpTo(Items, MaxBlocks) }

\* ---------------------------------- processClaudeResponseWithSizeControl
\* limit: 45000
TextCapLimit == 45000

\* a text of TextCapLimit + 1 characters
LongText == "LONG"

\* s.length
StrLen(s) == IF s = LongText THEN TextCapLimit + 1 ELSE Len(s)

\* the length of a piece as it stands in the string: a plain text, a tag
\* <cite index="idx">s</cite> (two more characters when escaped), a marker
\* [^n], the header \n\n---\n\n**Sources:**\n\n, a line [^n]: s of the
\* Sources block (joined with \n)
PieceLen(p) ==
    CASE p = SourcesHeader -> 21
      [] p.k = "plain" /\ p # SourcesHeader -> StrLen(p.s)
      [] p.k = "cite" -> 22 + (IF p.esc THEN 2 ELSE 0) + Len(p.idx) + StrLen(p.s)
      [] p.k = "marker" -> 4
      [] p.k = "source" -> (IF p.n > 1 THEN 1 ELSE 0) + 6 + StrLen(p.s)

RECURSIVE TextLen(_)
TextLen(text) ==
    IF text = << >> THEN 0 ELSE PieceLen(Head(text)) + TextLen(Tail(text))

\* a string of the normalized response: its length, and whether it ends
\* with a truncation marker
Str(len) == [ typeof |-> "string", len |-> len, marker |-> FALSE ]

\* capStr that appends a truncation marker to what it cut
capStr_Marks(s, limit) ==
    IF s.len > limit THEN [s EXCEPT !.len = limit, !.marker = TRUE] ELSE s

\* (typeof s === "string" && s.length > limit) ? s.slice(0, limit) : s
capStr(s, limit) ==
    IF s.len > limit THEN [s EXCEPT !.len = limit] ELSE s

\* a content block of the raw response as the normalizer reads it: text
\* (pieces) of a text block, thinking of a thinking block, and the citations
\* array with url, title and cited_text
NormItem(type, text, thinking, citations) ==
    [ type |-> type, text |-> text, thinking |-> thinking,
      citations |-> citations ]

NormCitation(url, title, cited) ==
    [ url |-> url, title |-> title, cited_text |-> cited ]

\* usage of the raw response and modelPricing of the request payload
\* (present or not); rates in cents per million tokens
Usage(present, input, output) ==
    [ present |-> present, input_tokens |-> input, output_tokens |-> output ]

Pricing(present, input, output) ==
    [ present |-> present, input |-> input, output |-> output ]

ResponseOptions == [ webSearch : BOOLEAN, jsonContent : BOOLEAN,
                     includeWrapper : BOOLEAN ]

\* the item capResponseTextFields returns for content[idx]: text is capped
\* (not that of content[0] when jsonContent), thinking is capped, the
\* citations array stays as it is
CapItem(item, idx, jsonContent, limit) ==
    [ type |-> item.type,
      text |-> IF item.type = "text" /\ ~(jsonContent /\ idx = 0)
               THEN capStr(Str(TextLen(item.text)), limit)
               ELSE Str(TextLen(item.text)),
      thinking |-> IF item.type = "thinking"
                   THEN capStr(Str(StrLen(item.thinking)), limit)
                   ELSE Str(0),
      citations |-> [j \in 1..Len(item.citations) |->
                        [ url |-> item.citations[j].url,
                          cited_text |->
                              Str(StrLen(item.citations[j].cited_text)) ]] ]

\* idx is the 0-based index of the item in content
capResponseTextFields(content, jsonContent, limit) ==
    [i \in 1..Len(content) |-> CapItem(content[i], i - 1, jsonContent, limit)]

\* +x.toFixed(6) of x = num / 100 millionths: the nearest whole number of
\* millionths; when two are as near, what the double holding x is nearest
\* to (tieUp)
ToFixed6(num, tieUp) ==
    LET q == num \div 100
        r == num % 100
    IN  IF r > 50 \/ (r = 50 /\ tieUp) THEN q + 1 ELSE q

\* a cost block whose total adds the rounded parts
CostBlock_SumOfRounded(usage, pricing, tieUp) ==
    [ inputTokens |-> usage.input_tokens,
      outputTokens |-> usage.output_tokens,
      inputCost |-> ToFixed6(usage.input_tokens * pricing.input, tieUp),
      outputCost |-> ToFixed6(usage.output_tokens * pricing.output, tieUp),
      totalCost |-> ToFixed6(usage.input_tokens * pricing.input, tieUp)
                    + ToFixed6(usage.output_tokens * pricing.output, tieUp) ]

\* finalResponse.cost, amounts in millionths of a dollar: tokens / 1e6 *
\* rate is tokens * cents / 100 millionths
CostBlock(usage, pricing, tieUp) ==
    [ inputTokens |-> usage.input_tokens,
      outputTokens |-> usage.output_tokens,
      inputCost |-> ToFixed6(usage.input_tokens * pricing.input, tieUp),
      outputCost |-> ToFixed6(usage.output_tokens * pricing.output, tieUp),
      totalCost |-> ToFixed6(usage.input_tokens * pricing.input
                             + usage.output_tokens * pricing.output, tieUp) ]

\* the optional fields of the result
OptionalField(present, name, value) ==
    IF present THEN name :> value ELSE << >>

\* claudeResponse: [content, usage]; requestPayload: [modelPricing,
\* responseOptions]; t: new Date(). The wrapper is the raw response itself
\* (role stands for the fields it has besides content and usage) with the
\* normalizer's fields added
processClaudeResponseWithSizeControl(claudeResponse_, requestPayload, tieUp, t) ==
    LET options == requestPayload.responseOptions
        pricing == requestPayload.modelPricing
        usage == claudeResponse_.usage
        cited == IF options.webSearch
                 THEN formatCitationsInPlace(claudeResponse_)
                 ELSE claudeResponse_
        content == capResponseTextFields(cited.content, options.jsonContent,
                                         TextCapLimit)
        hasCost == pricing.present /\ usage.present
        cost == CostBlock(usage, pricing, tieUp)
    IN  IF options.includeWrapper
        THEN [ content |-> [ typeof |-> "array", items |-> content ],
               role |-> "assistant",
               requestId |-> "id", completedAt |-> t,
               _processingInfo |-> [ includeWrapperMode |-> TRUE,
                                     citationsFormatted |-> options.webSearch ] ]
             @@ OptionalField(usage.present, "usage", usage)
             @@ OptionalField(hasCost, "cost", cost)
        ELSE [ content |-> IF Len(content) > 0 /\ content[1].text.len > 0
                           THEN content[1].text
                           ELSE Str(0),
               requestId |-> "id", completedAt |-> t,
               _processingInfo |-> [ includeWrapperMode |-> FALSE,
                                     citationsFormatted |-> options.webSearch ] ]
             @@ OptionalField(hasCost, "cost", cost)

\* ---------------------------------------------------------------- monitor
\* pc: idle or in its batches; start: when the run began; sel: the selected
\* rows, request_id -> [cnt: webhook_retry_count as selected, st: where that
\* row's retryWebhook is]; order: the selected ids as the query returned
\* them; batch: batchIndex + 1; good, bad: successCount, errorCount
IdleMonitor ==
    [ pc |-> "idle", start |-> 0, sel |-> << >>, order |-> << >>, batch |-> 0,
      good |-> 0, bad |-> 0 ]

\* const batchSize = 5
batchSize == 5

\* if (elapsed > 100000) break: the run stops itself after 100 s
MonitorBudgetSec == 100

\* .order('completed_at', { ascending: false }): newest first (rows completed
\* in the same second in an order the store picks)
RECURSIVE NewestFirst(_, _)
NewestFirst(tbl, ids) ==
    IF ids = {} THEN << >>
    ELSE LET id == CHOOSE x \in ids :
                      \A y \in ids : tbl[x].completed_at >= tbl[y].completed_at
         IN  <<id>> \o NewestFirst(tbl, ids \ {id})

\* batches.length
BatchCount(order) == (Len(order) + batchSize - 1) \div batchSize

\* unfetched.slice(i, i + batchSize) with i = (b - 1) * batchSize
BatchOf(order, b) ==
    { order[i] : i \in { k \in 1..Len(order) :
                           /\ k > (b - 1) * batchSize
                           /\ k <= b * batchSize } }

\* InBatch that lets the run work on every selected row at once
InBatch_All(mon, id) == id \in DOMAIN mon.sel

\* retryWebhook runs for the rows of the batch the loop is at
InBatch(mon, id) == id \in BatchOf(mon.order, mon.batch)

\* Promise.allSettled(batchPromises) has settled
BatchSettled(mon) ==
    \A id \in BatchOf(mon.order, mon.batch) : mon.sel[id].st = "done"

\* the platform stops a monitor run that has run for its maxDuration
MonitorAlive(m) == now - monitors[m].start < monitorMaxDuration

\* Selects without the 2-minute grace period
Selects_NoGrace(row, t) ==
    /\ row.status = "completed"
    /\ row.fetched_at = NoTime
    /\ row.completed_at > t - RetentionSec
    /\ row.webhook_retry_count < MaxWebhookRetries

\* Selects with a retry budget of 2
Selects_Max2(row, t) ==
    /\ row.status = "completed"
    /\ row.fetched_at = NoTime
    /\ row.completed_at < t - GraceSec
    /\ row.completed_at > t - RetentionSec
    /\ row.webhook_retry_count < 2

\* the monitor's query: .eq('status','completed').is('fetched_at', null)
\* .lt('completed_at', twoMinutesAgo).gt('completed_at', thirtyMinutesAgo)
\* .lt('webhook_retry_count', 3)
Selects(row, t) ==
    /\ row.status = "completed"
    /\ row.fetched_at = NoTime
    /\ row.completed_at < t - GraceSec
    /\ row.completed_at > t - RetentionSec
    /\ row.webhook_retry_count < MaxWebhookRetries

\* the rows the query returns (limit 50 is above the number of jobs)
Unfetched(tbl, t) == { id \in DOMAIN tbl : Selects(tbl[id], t) }

\* RetryPatch that also marks the job fetched
RetryPatch_SetsFetched(cnt, t) ==
    [ webhook_retry_count |-> cnt + 1, last_webhook_retry_at |-> t,
      fetched_at |-> t ]

\* .update({ webhook_retry_count: (request.webhook_retry_count || 0) + 1,
\*           last_webhook_retry_at: now })
RetryPatch(cnt, t) ==
    [ webhook_retry_count |-> cnt + 1, last_webhook_retry_at |-> t ]

\* AfterWorkerPush with a rejected push escaping to the handler's catch block
AfterWorkerPush_Throws(accepted) == IF accepted THEN "respond" ELSE "catch"

\* the worker after its push: the inner try/catch swallows a failed push
AfterWorkerPush(accepted) == "respond"

\* res.json({ totalFound, processed, successful, failed, ... })
MonitorResponse(found, good, bad) ==
    [ op |-> "monitor", id |-> "none", code |-> 200, msg |-> NoVal,
      body |-> NoBody,
      summary |-> [ totalFound |-> found, processed |-> good + bad,
                    successful |-> good, failed |-> bad ] ]

Init ==
    /\ jobs = << >>
    /\ now = 0
    /\ workers = [w \in Workers |-> IdleWorker]
    /\ upstream = [j \in JobIds |-> [queued |-> 0, processing |-> 0]]
    /\ pushes = [j \in JobIds |-> 0]
    /\ resp = NoResp
    /\ monitors = [m \in Monitors |-> IdleMonitor]
    /\ retryPushes = [j \in JobIds |-> 0]
    /\ receiver \in BOOLEAN
    /\ delivered = [j \in JobIds |-> FALSE]
    /\ lastPushAt = NoTime
    /\ calls = [w \in Workers |-> IdleCall]
    /\ trigger = [j \in JobIds |-> "none"]
    /\ claudeResponse = NoResponse
    /\ formatted = << >>
    /\ normInput = << >>
    /\ normalized = << >>

\* the clock advances; an invocation at its deadline is stopped first
Tick ==
    /\ now + TimeStep <= MaxTime
    /\ \A w \in Workers : workers[w].pc = "idle" \/ Alive(w)
    /\ \A m \in Monitors : monitors[m].pc = "idle" \/ MonitorAlive(m)
    /\ now' = now + TimeStep
    /\ resp' = NoResp
    /\ UNCHANGED <<jobs, workers, upstream, pushes>>
    /\ UNCHANGED dvars
    /\ UNCHANGED calls
    /\ UNCHANGED trigger
    /\ UNCHANGED cvars

\* ---------------------------------------------------------- queue-request
\* POST /api/queue-request: validate, insert the queued row, fire the trigger
\* without awaiting it (the trigger's arrival is ProcessSelect, taken zero
\* or more times), acknowledge
QueueRequest(id, fieldsOk, payload, trig) ==
    /\ IF ~fieldsOk
       THEN /\ resp' = Response("queue", id, 400, "Missing required fields", NoBody)
            /\ UNCHANGED <<jobs, trigger>>
       ELSE IF InsertFails(jobs, id)
       THEN /\ resp' = Response("queue", id, 500, "Failed to queue request", NoBody)
            /\ UNCHANGED <<jobs, trigger>>
       ELSE /\ jobs' = jobs @@
                  (id :> [NewRow(now) EXCEPT !.request_payload = payload])
            /\ trigger' = [trigger EXCEPT ![id] = trig]
            /\ resp' = Response("queue", id, AckCode(trig),
                                IF AckCode(trig) = 200 THEN "queued"
                                ELSE "Failed to queue request", NoBody)
    /\ UNCHANGED <<now, workers, upstream, pushes>>
    /\ UNCHANGED dvars
    /\ UNCHANGED calls
    /\ UNCHANGED cvars

\* ---------------------------------------------------------- process-queue
\* POST /api/process-queue {requestId}: the select and the status checks
ProcessSelect(w, id) ==
    /\ workers[w].pc = "idle"
    /\ LET found == id \in DOMAIN jobs
           request == IF found THEN jobs[id] ELSE NewRow(now)
           proceed(pc, err) ==
               /\ workers' = [workers EXCEPT ![w] =
                     [ pc |-> pc, id |-> id,
                       seen |-> IF found THEN request.status ELSE "none",
                       start |-> now, err |-> err ]]
               /\ resp' = NoResp
           reply(code, msg) ==
               /\ resp' = Response("process", id, code, msg, NoBody)
               /\ UNCHANGED workers
           branch == Decide(found, request, now)
       IN  CASE branch = "notfound"  -> proceed("catch", ErrNotFound)
             [] branch = "completed" -> reply(200, MsgCompleted)
             [] branch = "failed"    -> reply(200, MsgFailed)
             [] branch = "busy"      -> reply(409, MsgBusy)
             [] branch = "mark"      -> proceed("mark", NoVal)
    /\ UNCHANGED <<jobs, now, upstream, pushes>>
    /\ UNCHANGED dvars
    /\ UNCHANGED calls
    /\ UNCHANGED trigger
    /\ UNCHANGED cvars

\* "Mark as processing": an unconditional update, its result not inspected;
\* callClaudeAPI starts right after it and validates its input before any
\* await: a malformed request throws into the handler's catch block
MarkProcessing(w) ==
    /\ workers[w].pc = "mark"
    /\ Alive(w)
    /\ LET id == workers[w].id
           seen == workers[w].seen
       IN  /\ jobs' = Update(jobs, id, MarkPatch(now))
           /\ upstream' = [upstream EXCEPT ![id][seen] = @ + 1]
    /\ LET verr == IF workers[w].id \in DOMAIN jobs
                   THEN ValidationError(jobs[workers[w].id].request_payload)
                   ELSE NoVal
       IN  workers' = [workers EXCEPT
               ![w].pc = IF verr = NoVal THEN "call" ELSE "catch",
               ![w].err = verr]
    /\ resp' = NoResp
    /\ UNCHANGED <<now, pushes>>
    /\ UNCHANGED dvars
    /\ UNCHANGED calls
    /\ UNCHANGED trigger
    /\ UNCHANGED cvars

\* callClaudeAPI returns the response or throws
UpstreamReturn(w, ok) ==
    /\ workers[w].pc = "call"
    /\ Alive(w)
    /\ workers' = [workers EXCEPT ![w].pc = IF ok THEN "complete" ELSE "catch",
                                  ![w].err = IF ok THEN NoVal ELSE ErrUpstream]
    /\ resp' = NoResp
    /\ UNCHANGED <<jobs, now, upstream, pushes>>
    /\ UNCHANGED dvars
    /\ UNCHANGED calls
    /\ UNCHANGED trigger
    /\ UNCHANGED cvars

\* a handler that does not look at updateError
AfterCompleteWrite_Unchecked(ok) == "webhook"

\* if (updateError) throw new Error('Database update failed: ...'): the
\* handler goes on to the push only when the update reported no error
AfterCompleteWrite(ok) == IF ok THEN "webhook" ELSE "catch"

\* "Mark as completed": the update, then `if (updateError) throw`
CompleteWrite(w, ok) ==
    /\ workers[w].pc = "complete"
    /\ Alive(w)
    /\ IF ok
       THEN jobs' = Update(jobs, workers[w].id, CompletePatch(now))
       ELSE UNCHANGED jobs
    /\ workers' = [workers EXCEPT
          ![w].pc = AfterCompleteWrite(ok),
          ![w].err = IF AfterCompleteWrite(ok) = "catch"
                     THEN ErrDbUpdate ELSE @]
    /\ resp' = NoResp
    /\ UNCHANGED <<now, upstream, pushes>>
    /\ UNCHANGED dvars
    /\ UNCHANGED calls
    /\ UNCHANGED trigger
    /\ UNCHANGED cvars

\* direct webhook delivery: the push is sent at once; a non-2xx answer or a
\* thrown fetch error is only logged; then 200 {success: true}
SendWebhook(w) ==
    /\ workers[w].pc = "webhook"
    /\ Alive(w)
    /\ LET id == workers[w].id
           next == AfterWorkerPush(receiver)
       IN  /\ pushes' = [pushes EXCEPT ![id] = @ + 1]
           /\ delivered' = [delivered EXCEPT ![id] = @ \/ receiver]
           /\ lastPushAt' = now
           /\ IF next = "respond"
              THEN /\ resp' = Response("process", id, 200, "success", NoBody)
                   /\ workers' = [workers EXCEPT ![w] = IdleWorker]
              ELSE /\ resp' = NoResp
                   /\ workers' = [workers EXCEPT ![w].pc = next,
                                                 ![w].err = ErrWebhook]
    /\ UNCHANGED <<jobs, now, upstream, monitors, retryPushes, receiver>>
    /\ UNCHANGED calls
    /\ UNCHANGED trigger
    /\ UNCHANGED cvars

\* the handler's catch block: an unconditional update to failed, then 500
CatchWrite(w) ==
    /\ workers[w].pc = "catch"
    /\ Alive(w)
    /\ jobs' = Update(jobs, workers[w].id, FailPatch(workers[w].err, now))
    /\ resp' = Response("process", workers[w].id, 500, workers[w].err, NoBody)
    /\ workers' = [workers EXCEPT ![w] = IdleWorker]
    /\ UNCHANGED <<now, upstream, pushes>>
    /\ UNCHANGED dvars
    /\ UNCHANGED calls
    /\ UNCHANGED trigger
    /\ UNCHANGED cvars

\* one iteration of callClaudeAPI's retry loop: the backoff wait of a retry,
\* the fetch, and what the loop does with its outcome
Attempt(w, out) ==
    /\ workers[w].pc = "call"
    /\ Alive(w)
    /\ LET c == IF calls[w].done
                THEN [ outs |-> << >>, delays |-> << >>, done |-> FALSE ]
                ELSE calls[w]
           attempt == Len(c.outs)
           result == AttemptResult(out, attempt)
       IN  /\ calls' = [calls EXCEPT ![w] =
                 [ outs |-> Append(c.outs, out),
                   delays |-> IF attempt > 0
                              THEN Append(c.delays, Backoff(attempt))
                              ELSE c.delays,
                   done |-> result # "retry" ]]
           /\ workers' = [workers EXCEPT
                 ![w].pc = CASE result = "return" -> "complete"
                             [] result = "throw"  -> "catch"
                             [] result = "retry"  -> "call",
                 ![w].err = IF result = "throw" THEN ErrUpstream ELSE NoVal]
    /\ resp' = NoResp
    /\ UNCHANGED <<jobs, now, upstream, pushes>>
    /\ UNCHANGED dvars
    /\ UNCHANGED trigger
    /\ UNCHANGED cvars

\* the platform ends an invocation that reached maxDuration
Kill(w) ==
    /\ workers[w].pc # "idle"
    /\ ~Alive(w)
    /\ resp' = Response("process", workers[w].id, 504, "timeout", NoBody)
    /\ workers' = [workers EXCEPT ![w] = IdleWorker]
    /\ UNCHANGED <<jobs, now, upstream, pushes>>
    /\ UNCHANGED dvars
    /\ UNCHANGED calls
    /\ UNCHANGED trigger
    /\ UNCHANGED cvars

\* -------------------------------------------------------- webhook-monitor
\* the monitor's query; no row: the summary at once; else the batch starts
\* (with one job the run has one batch)
MonitorSelect(m, ok) ==
    /\ monitors[m].pc = "idle"
    /\ IF ~ok
       THEN /\ resp' = Response("monitor", "none", 500, "Query failed", NoBody)
            /\ UNCHANGED monitors
       ELSE LET found == Unfetched(jobs, now)
            IN  IF found = {}
                THEN /\ resp' = MonitorResponse(0, 0, 0)
                     /\ UNCHANGED monitors
                ELSE /\ resp' = NoResp
                     /\ monitors' = [monitors EXCEPT ![m] =
                           [ pc |-> "batch", start |-> now,
                             sel |-> [id \in found |->
                                       [ cnt |-> jobs[id].webhook_retry_count,
                                         st |-> "update" ]],
                             order |-> NewestFirst(jobs, found), batch |-> 1,
                             good |-> 0, bad |-> 0 ]]
    /\ UNCHANGED <<jobs, now, workers, upstream, pushes>>
    /\ UNCHANGED <<retryPushes, receiver, delivered, lastPushAt>>
    /\ UNCHANGED calls
    /\ UNCHANGED trigger
    /\ UNCHANGED cvars

\* retryWebhook: "Update retry tracking first"; on updateError it throws
RetryUpdate(m, id, ok) ==
    /\ monitors[m].pc = "batch"
    /\ MonitorAlive(m)
    /\ id \in DOMAIN monitors[m].sel
    /\ InBatch(monitors[m], id)
    /\ monitors[m].sel[id].st = "update"
    /\ IF ok
       THEN /\ jobs' = Update(jobs, id, RetryPatch(monitors[m].sel[id].cnt, now))
            /\ monitors' = [monitors EXCEPT ![m].sel[id].st = "push"]
       ELSE /\ UNCHANGED jobs
            /\ monitors' = [monitors EXCEPT ![m].sel[id].st = "done",
                                            ![m].bad = @ + 1]
    /\ resp' = NoResp
    /\ UNCHANGED <<now, workers, upstream, pushes>>
    /\ UNCHANGED <<retryPushes, receiver, delivered, lastPushAt>>
    /\ UNCHANGED calls
    /\ UNCHANGED trigger
    /\ UNCHANGED cvars

\* retryWebhook: the retry push; response.ok counts as success, anything
\* else throws and counts as failed
RetryPush(m, id) ==
    /\ monitors[m].pc = "batch"
    /\ MonitorAlive(m)
    /\ id \in DOMAIN monitors[m].sel
    /\ InBatch(monitors[m], id)
    /\ monitors[m].sel[id].st = "push"
    /\ retryPushes' = [retryPushes EXCEPT ![id] = @ + 1]
    /\ delivered' = [delivered EXCEPT ![id] = @ \/ receiver]
    /\ lastPushAt' = now
    /\ monitors' = [monitors EXCEPT
          ![m].sel[id].st = "done",
          ![m].good = IF receiver THEN @ + 1 ELSE @,
          ![m].bad = IF receiver THEN @ ELSE @ + 1]
    /\ resp' = NoResp
    /\ UNCHANGED <<jobs, now, workers, upstream, pushes, receiver>>
    /\ UNCHANGED calls
    /\ UNCHANGED trigger
    /\ UNCHANGED cvars

\* after Promise.allSettled of a batch and the 1 s delay: the loop goes on
\* to the next batch unless more than 100 s have passed
NextBatch(m) ==
    /\ monitors[m].pc = "batch"
    /\ MonitorAlive(m)
    /\ BatchSettled(monitors[m])
    /\ monitors[m].batch < BatchCount(monitors[m].order)
    /\ ~(now - monitors[m].start > MonitorBudgetSec)
    /\ monitors' = [monitors EXCEPT ![m].batch = @ + 1]
    /\ resp' = NoResp
    /\ UNCHANGED <<jobs, now, workers, upstream, pushes>>
    /\ UNCHANGED <<retryPushes, receiver, delivered, lastPushAt>>
    /\ UNCHANGED calls
    /\ UNCHANGED trigger
    /\ UNCHANGED cvars

\* after Promise.allSettled of the last batch, or of a batch that ended
\* more than 100 s into the run (break): the run summary
MonitorFinish(m) ==
    /\ monitors[m].pc = "batch"
    /\ MonitorAlive(m)
    /\ BatchSettled(monitors[m])
    /\ \/ monitors[m].batch = BatchCount(monitors[m].order)
       \/ now - monitors[m].start > MonitorBudgetSec
    /\ resp' = MonitorResponse(Len(monitors[m].order),
                               monitors[m].good, monitors[m].bad)
    /\ monitors' = [monitors EXCEPT ![m] = IdleMonitor]
    /\ UNCHANGED <<jobs, now, workers, upstream, pushes>>
    /\ UNCHANGED <<retryPushes, receiver, delivered, lastPushAt>>
    /\ UNCHANGED calls
    /\ UNCHANGED trigger
    /\ UNCHANGED cvars

\* the platform ends a monitor run that reached its maxDuration
KillMonitor(m) ==
    /\ monitors[m].pc # "idle"
    /\ ~MonitorAlive(m)
    /\ resp' = Response("monitor", "none", 504, "timeout", NoBody)
    /\ monitors' = [monitors EXCEPT ![m] = IdleMonitor]
    /\ UNCHANGED <<jobs, now, workers, upstream, pushes>>
    /\ UNCHANGED <<retryPushes, receiver, delivered, lastPushAt>>
    /\ UNCHANGED calls
    /\ UNCHANGED trigger
    /\ UNCHANGED cvars

\* ------------------------------------------------------ callback receiver
\* the caller's receiver starts or stops answering pushes with 2xx
ReceiverFlip ==
    /\ receiver' = ~receiver
    /\ resp' = NoResp
    /\ UNCHANGED <<jobs, now, workers, upstream, pushes>>
    /\ UNCHANGED <<monitors, retryPushes, delivered, lastPushAt>>
    /\ UNCHANGED calls
    /\ UNCHANGED trigger
    /\ UNCHANGED cvars

\* --------------------------------------------------------- request-status
\* GET /api/request-status?requestId=...
StatusLookup(id) ==
    /\ StatusEffect(id)
    /\ UNCHANGED <<now, workers, upstream, pushes>>
    /\ UNCHANGED dvars
    /\ UNCHANGED calls
    /\ UNCHANGED trigger
    /\ UNCHANGED cvars

Next ==
    \/ Tick
    \/ \E id \in JobIds, fieldsOk \in BOOLEAN :
          QueueRequest(id, fieldsOk, ValidPayload, "delivered")
    \/ \E w \in Workers, id \in JobIds : ProcessSelect(w, id)
    \/ \E w \in Workers : MarkProcessing(w)
    \/ \E w \in Workers, ok \in BOOLEAN : UpstreamReturn(w, ok)
    \/ \E w \in Workers, ok \in BOOLEAN : CompleteWrite(w, ok)
    \/ \E w \in Workers : SendWebhook(w)
    \/ \E w \in Workers : CatchWrite(w)
    \/ \E w \in Workers : Kill(w)
    \/ \E id \in JobIds : StatusLookup(id)
    \/ ReceiverFlip

\* the job lifecycle: dispatcher, concurrent workers, status lookups
Spec == Init /\ [][Next]_vars

\* the delivery side: one worker invocation and one monitor run at a time,
\* the callback receiver
DeliveryWorkers == {"w1"}
DeliveryMonitors == {"m1"}

\* the steps of the worker invocations ws
WorkerSteps(ws) ==
    \/ \E w \in ws, id \in JobIds : ProcessSelect(w, id)
    \/ \E w \in ws : MarkProcessing(w)
    \/ \E w \in ws, ok \in BOOLEAN : UpstreamReturn(w, ok)
    \/ \E w \in ws, ok \in BOOLEAN : CompleteWrite(w, ok)
    \/ \E w \in ws : SendWebhook(w)
    \/ \E w \in ws : CatchWrite(w)
    \/ \E w \in ws : Kill(w)

\* the steps of the monitor runs ms
MonitorSteps(ms) ==
    \/ \E m \in ms, ok \in BOOLEAN : MonitorSelect(m, ok)
    \/ \E m \in ms, id \in JobIds, ok \in BOOLEAN : RetryUpdate(m, id, ok)
    \/ \E m \in ms, id \in JobIds : RetryPush(m, id)
    \/ \E m \in ms : MonitorFinish(m)
    \/ \E m \in ms : KillMonitor(m)

NextDelivery ==
    \/ Tick
    \/ \E id \in JobIds : QueueRequest(id, TRUE, ValidPayload, "delivered")
    \/ WorkerSteps(DeliveryWorkers)
    \/ MonitorSteps(DeliveryMonitors)
    \/ \E id \in JobIds : StatusLookup(id)
    \/ ReceiverFlip

SpecDelivery == Init /\ [][NextDelivery]_vars

\* overlapping monitor runs (a scheduled run and a manual or late one) over
\* the jobs one worker completes
NextOverlap ==
    \/ Tick
    \/ \E id \in JobIds : QueueRequest(id, TRUE, ValidPayload, "delivered")
    \/ WorkerSteps(DeliveryWorkers)
    \/ MonitorSteps(Monitors)

SpecOverlap == Init /\ [][NextOverlap]_vars

\* one monitor run after another over a backlog of more rows than a batch
\* holds: the rows are completed and unfetched when the first run starts,
\* the clock moves in steps short enough to end a batch between the run's
\* own time limit (100 s) and the platform's (120 s); the job store accepts
\* the retry tracking writes
BatchJobs == <<"b1", "b2", "b3", "b4", "b5", "b6">>

BatchJobIds == { BatchJobs[k] : k \in 1..Len(BatchJobs) }

\* a worker's completed row that no fetch acknowledged and that earlier
\* monitor runs retried, the last time at retried, one retry short of the
\* limit
BacklogRow(created, completed, retried) ==
    [NewRow(created) EXCEPT !.status = "completed",
                            !.response_payload = Processed,
                            !.processing_started_at = created,
                            !.completed_at = completed,
                            !.webhook_retry_count = MaxWebhookRetries - 1,
                            !.last_webhook_retry_at = retried]

InitBatches ==
    /\ now = MaxTime - 2 * monitorMaxDuration
    /\ jobs = [id \in BatchJobIds |->
                 BacklogRow(now - RetentionSec \div 2,
                            now - RetentionSec \div 2
                              + CHOOSE k \in 1..Len(BatchJobs) : BatchJobs[k] = id,
                            now - monitorMaxDuration)]
    /\ workers = [w \in Workers |-> IdleWorker]
    /\ upstream = [j \in BatchJobIds |-> [queued |-> 0, processing |-> 0]]
    /\ pushes = [j \in BatchJobIds |-> 1]
    /\ resp = NoResp
    /\ monitors = [m \in Monitors |-> IdleMonitor]
    /\ retryPushes = [j \in BatchJobIds |-> MaxWebhookRetries - 1]
    /\ receiver \in BOOLEAN
    /\ delivered = [j \in BatchJobIds |-> FALSE]
    /\ lastPushAt = NoTime
    /\ calls = [w \in Workers |-> IdleCall]
    /\ trigger = [j \in BatchJobIds |-> "none"]
    /\ claudeResponse = NoResponse
    /\ formatted = << >>
    /\ normInput = << >>
    /\ normalized = << >>

\* the time a batch took, seen when its Promise.allSettled has settled; a
\* run at the platform's limit is stopped first
BatchTick ==
    /\ now + BatchStep <= MaxTime
    /\ \E m \in DeliveryMonitors :
          /\ monitors[m].pc = "batch"
          /\ MonitorAlive(m)
          /\ BatchSettled(monitors[m])
    /\ now' = now + BatchStep
    /\ resp' = NoResp
    /\ UNCHANGED <<jobs, workers, upstream, pushes>>
    /\ UNCHANGED dvars
    /\ UNCHANGED calls
    /\ UNCHANGED trigger
    /\ UNCHANGED cvars

NextBatches ==
    \/ BatchTick
    \/ \E ok \in BOOLEAN : MonitorSelect("m1", ok)
    \/ \E id \in BatchJobIds : RetryUpdate("m1", id, TRUE)
    \/ \E id \in BatchJobIds : RetryPush("m1", id)
    \/ NextBatch("m1")
    \/ MonitorFinish("m1")
    \/ KillMonitor("m1")

SpecBatches == InitBatches /\ [][NextBatches]_vars

\* the upstream call attempt by attempt: one worker invocation at a time
NextRetry ==
    \/ Tick
    \/ \E id \in JobIds, payload \in Payloads :
          QueueRequest(id, TRUE, payload, "delivered")
    \/ \E w \in DeliveryWorkers, id \in JobIds : ProcessSelect(w, id)
    \/ \E w \in DeliveryWorkers : MarkProcessing(w)
    \/ \E w \in DeliveryWorkers, out \in Outcomes : Attempt(w, out)
    \/ \E w \in DeliveryWorkers, ok \in BOOLEAN : CompleteWrite(w, ok)
    \/ \E w \in DeliveryWorkers : SendWebhook(w)
    \/ \E w \in DeliveryWorkers : CatchWrite(w)
    \/ \E w \in DeliveryWorkers : Kill(w)

SpecRetry == Init /\ [][NextRetry]_vars

\* the dispatcher with every submission body and every fate of its trigger,
\* one worker invocation and one monitor run at a time
NextDispatch ==
    \/ Tick
    \/ \E id \in JobIds, body \in Bodies, trig \in TriggerFates :
          QueueRequest(id, RequiredPresent(body), ValidPayload, trig)
    \/ WorkerSteps(DeliveryWorkers)
    \/ MonitorSteps(DeliveryMonitors)
    \/ \E id \in JobIds : StatusLookup(id)

SpecDispatch == Init /\ [][NextDispatch]_vars

\* processClaudeResponseWithSizeControl, called between the upstream call
\* and the completed write, throws (its steps 1, 4 and 5 are outside its
\* try blocks: a response body that is JSON null cannot take requestId) and
\* the handler's catch block takes over
NormalizerThrows(w) ==
    /\ workers[w].pc = "complete"
    /\ Alive(w)
    /\ workers' = [workers EXCEPT ![w].pc = "catch", ![w].err = ErrNormalizer]
    /\ resp' = NoResp
    /\ UNCHANGED <<jobs, now, upstream, pushes>>
    /\ UNCHANGED dvars
    /\ UNCHANGED calls
    /\ UNCHANGED trigger
    /\ UNCHANGED cvars

\* the steps invocation w takes after its mark, with every outcome of the
\* upstream call, of the normalizer, of the completed write and of the push
OutcomeStep(w) ==
    \/ \E ok \in BOOLEAN : UpstreamReturn(w, ok)
    \/ NormalizerThrows(w)
    \/ \E ok \in BOOLEAN : CompleteWrite(w, ok)
    \/ SendWebhook(w)
    \/ CatchWrite(w)

\* concurrent worker invocations with every outcome of each of their steps
NextOutcomes ==
    \/ Tick
    \/ \E id \in JobIds : QueueRequest(id, TRUE, ValidPayload, "delivered")
    \/ \E w \in Workers, id \in JobIds : ProcessSelect(w, id)
    \/ \E w \in Workers : MarkProcessing(w)
    \/ \E w \in Workers : OutcomeStep(w)
    \/ \E w \in Workers : Kill(w)
    \/ ReceiverFlip

SpecOutcomes == Init /\ [][NextOutcomes]_vars

\* ------------------------------------------------------------- normalizer
\* the upstream call returned raw response r
ReceiveResponse(r) ==
    /\ claudeResponse = NoResponse
    /\ formatted = << >>
    /\ claudeResponse' = r
    /\ UNCHANGED <<formatted, normInput, normalized>>
    /\ UNCHANGED <<jobs, now, workers, upstream, pushes, resp>>
    /\ UNCHANGED dvars
    /\ UNCHANGED <<calls, trigger>>

\* finalResponse = formatCitationsInPlace(finalResponse), run on the
\* response the caller holds
FormatCitations ==
    /\ Len(formatted) < MaxRuns
    /\ formatted' = Append(formatted, formatCitationsInPlace(claudeResponse))
    /\ claudeResponse' = ArgumentAfterFormat(claudeResponse)
    /\ UNCHANGED <<normInput, normalized>>
    /\ UNCHANGED <<jobs, now, workers, upstream, pushes, resp>>
    /\ UNCHANGED dvars
    /\ UNCHANGED <<calls, trigger>>

\* the citation formatter alone, run on every raw response
NextCitations ==
    \/ /\ claudeResponse = NoResponse
       /\ \E r \in RawResponses : ReceiveResponse(r)
    \/ FormatCitations

SpecCitations == Init /\ [][NextCitations]_vars

\* the raw responses and request payloads the normalizer is run on
NormContents ==
    { << >>,
      << NormItem("text", << Plain("p") >>, "", << >>) >>,
      << NormItem("text", << Plain(LongText) >>, "", << >>) >>,
      << NormItem("thinking", << >>, LongText, << >>),
         NormItem("text", << Plain("p") >>, "", << >>) >>,
      << NormItem("text", << Plain("p") >>, "",
                  << NormCitation("u1", "T1", LongText) >>) >>,
      << NormItem("text", << Cite(FALSE, "1", "a"), Plain("p") >>, "", << >>),
         NormItem("text", << Plain(LongText) >>, "", << >>) >>,
      << NormItem("tool_use", << >>, "", << >>),
         NormItem("text", << Plain("p") >>, "", << >>) >> }

Usages ==
    { Usage(FALSE, 0, 0), Usage(TRUE, 1000, 500), Usage(TRUE, 1, 1),
      Usage(TRUE, 3, 0) }

Pricings == { Pricing(FALSE, 0, 0), Pricing(TRUE, 300, 1500), Pricing(TRUE, 50, 150) }

NormInputs ==
    { [ response |-> [ hasContent |-> TRUE, content |-> c, usage |-> u ],
        payload |-> [ modelPricing |-> p, responseOptions |-> o ] ] :
      c \in NormContents, u \in Usages, p \in Pricings, o \in ResponseOptions }

\* the upstream call returned: the handler holds the raw response and the
\* request payload
ReceiveNormInput(in) ==
    /\ normInput = << >>
    /\ normInput' = << in >>
    /\ UNCHANGED <<claudeResponse, formatted, normalized>>
    /\ UNCHANGED <<jobs, now, workers, upstream, pushes, resp>>
    /\ UNCHANGED dvars
    /\ UNCHANGED <<calls, trigger>>

\* processedResponse = processClaudeResponseWithSizeControl(claudeResponse,
\* request.request_payload)
Normalize(tieUp) ==
    /\ normInput # << >>
    /\ normalized = << >>
    /\ normalized' = << processClaudeResponseWithSizeControl(
                            normInput[1].response, normInput[1].payload,
                            tieUp, now) >>
    /\ UNCHANGED <<claudeResponse, formatted, normInput>>
    /\ UNCHANGED <<jobs, now, workers, upstream, pushes, resp>>
    /\ UNCHANGED dvars
    /\ UNCHANGED <<calls, trigger>>

\* the normalizer alone, run on every raw response and request payload
NextNormalize ==
    \/ /\ normInput = << >>
       /\ \E in \in NormInputs : ReceiveNormInput(in)
    \/ \E tieUp \in BOOLEAN : Normalize(tieUp)

SpecNormalize == Init /\ [][NextNormalize]_vars

\* ======================================================= job state machine
Terminal == {"completed", "failed"}

\* C1: two process-queue invocations that both read the same job as queued
\* start exactly one upstream call between them: per job, at most one
\* callClaudeAPI call is ever started by an invocation that read `queued`.
C1_OneUpstreamCallFromQueued ==
    \A j \in JobIds : upstream[j].queued <= 1

\* C2: terminal states are final: once a job's stored status is completed or
\* failed, no step changes its status, response_payload or error_message.
C2_TerminalIsFinal ==
    [][\A j \in DOMAIN jobs :
          jobs[j].status \in Terminal =>
              /\ j \in DOMAIN jobs'
              /\ jobs'[j].status = jobs[j].status
              /\ jobs'[j].response_payload = jobs[j].response_payload
              /\ jobs'[j].error_message = jobs[j].error_message]_vars

\* C3: in every state, a completed or failed job has exactly one of
\* response_payload and error_message non-null, and a queued or processing
\* job has both null.
C3_ResultErrorNullness ==
    \A j \in DOMAIN jobs :
        LET r == jobs[j]
        IN  /\ r.status \in Terminal =>
                (r.response_payload # NoVal) # (r.error_message # NoVal)
            /\ r.status \in {"queued", "processing"} =>
                r.response_payload = NoVal /\ r.error_message = NoVal

\* C4: the stored status of a job only moves queued -> processing ->
\* completed | failed: never from queued straight to a terminal status, and
\* never from a terminal status or from processing back to an earlier one.
C4_StatusOrder ==
    [][\A j \in DOMAIN jobs :
          /\ j \in DOMAIN jobs'
          /\ \/ jobs'[j].status = jobs[j].status
             \/ jobs[j].status = "queued" /\ jobs'[j].status = "processing"
             \/ jobs[j].status = "processing" /\ jobs'[j].status \in Terminal]_vars

\* C5: in every state, processing_started_at is null exactly when the status
\* is queued, and completed_at is null exactly when it is queued or processing.
C5_TimestampNullness ==
    \A j \in DOMAIN jobs :
        LET r == jobs[j]
        IN  /\ (r.processing_started_at = NoTime) <=> (r.status = "queued")
            /\ (r.completed_at = NoTime) <=> (r.status \in {"queued", "processing"})

C7_StuckReclaimed ==
    [][\A w \in Workers :
          /\ \A j \in DOMAIN jobs :
                ( /\ ProcessSelect(w, j)
                  /\ jobs[j].status = "processing"
                  /\ now - jobs[j].processing_started_at >= StuckThresholdSec )
                => /\ resp' = NoResp
                   /\ workers'[w].pc = "mark"
                   /\ workers'[w].id = j
                   /\ workers'[w].seen = "processing"
          /\ ( MarkProcessing(w) /\ workers[w].seen = "processing" )
                => LET j == workers[w].id
                   IN  /\ jobs'[j].status = "processing"
                       /\ jobs'[j].processing_started_at = now
                       /\ jobs'[j].error_message = NoVal
                       /\ upstream'[j].processing = upstream[j].processing + 1
                       /\ workers'[w].pc = "call"]_vars

\* a stuck job has been restarted: its upstream call is in flight and its
\* processing_started_at is the restart time
C7_Witness ==
    \E w \in Workers :
        /\ workers[w].pc = "call"
        /\ workers[w].seen = "processing"
        /\ jobs[workers[w].id].status = "processing"
        /\ jobs[workers[w].id].processing_started_at = now
        /\ now >= StuckThresholdSec
        /\ upstream[workers[w].id].processing >= 1

\* C8: a trigger for a job stored as completed or failed answers 200 and
\* changes no row, starts no upstream call, sends no push and leaves no
\* invocation running.
C8_TerminalTriggerNoOp ==
    [][\A w \in Workers, j \in DOMAIN jobs :
          ( ProcessSelect(w, j) /\ jobs[j].status \in Terminal )
          => /\ resp'.op = "process" /\ resp'.id = j /\ resp'.code = 200
             /\ resp'.msg = IF jobs[j].status = "completed"
                             THEN MsgCompleted ELSE MsgFailed
             /\ UNCHANGED <<jobs, upstream, pushes, workers>>]_vars

\* the no-op answer has just been sent for a job that had failed
C8_Witness ==
    /\ resp.op = "process" /\ resp.code = 200 /\ resp.msg = MsgFailed
    /\ jobs[resp.id].status = "failed"

\* ========================================================= status endpoint
\* C9: after a status lookup of a completed job, its fetched_at is non-null.
C9_LookupMarksFetched ==
    ( /\ resp.op = "status" /\ resp.code = 200
      /\ resp.body.status = "completed" )
    => jobs[resp.id].fetched_at # NoTime

\* C10: a status lookup answers 404 for an id without a row and creates no
\* row; for an id with a row it answers 200 with the stored status,
\* timestamps, error and result; in both cases the table is unchanged.
C10_LookupReadOnly ==
    [][\A id \in JobIds :
          StatusLookup(id) =>
              /\ jobs' = jobs
              /\ resp'.op = "status" /\ resp'.id = id
              /\ IF id \notin DOMAIN jobs
                 THEN resp'.code = 404 /\ resp'.body = NoBody
                 ELSE /\ resp'.code = 200
                      /\ resp'.body.status = jobs[id].status
                      /\ resp'.body.createdAt = jobs[id].created_at
                      /\ resp'.body.processingStartedAt = jobs[id].processing_started_at
                      /\ resp'.body.completedAt = jobs[id].completed_at
                      /\ resp'.body.errorMessage = jobs[id].error_message
                      /\ resp'.body.response = jobs[id].response_payload]_vars

\* a lookup has just returned the result of a completed job
C10_Witness ==
    /\ resp.op = "status" /\ resp.code = 200
    /\ resp.body.status = "completed"
    /\ resp.body.response = Processed
    /\ resp.body.completedAt # NoTime

\* ================================================= reconciliation monitor
\* C11: every job a monitor run selects is, at the time of the selection,
\* completed, not fetched, completed more than 2 minutes and less than 30
\* minutes ago and has a retry count below 3; a retry push is sent only for
\* a job the sending run selected.
C11_SelectionCriteria ==
    [][\A m \in Monitors :
          /\ ( monitors[m].pc = "idle" /\ monitors'[m].pc = "batch" )
                => \A id \in DOMAIN monitors'[m].sel :
                      /\ id \in DOMAIN jobs
                      /\ jobs[id].status = "completed"
                      /\ jobs[id].fetched_at = NoTime
                      /\ now - jobs[id].completed_at > 120
                      /\ now - jobs[id].completed_at < 1800
                      /\ jobs[id].webhook_retry_count < 3
          /\ \A id \in JobIds :
                RetryPush(m, id) => id \in DOMAIN monitors[m].sel]_vars

\* a run has selected a job and sent its retry push
C11_Witness ==
    \E m \in Monitors, id \in JobIds :
        /\ monitors[m].pc = "batch"
        /\ id \in DOMAIN monitors[m].sel
        /\ monitors[m].sel[id].st = "done"
        /\ retryPushes[id] >= 1

\* C12: the stored retry count of a job never decreases, whatever monitor
\* runs (overlapping ones included) take steps, and never exceeds 3.
C12_RetryCountMonotone ==
    [][\A j \in DOMAIN jobs :
          /\ j \in DOMAIN jobs'
          /\ jobs'[j].webhook_retry_count >= jobs[j].webhook_retry_count
          /\ jobs'[j].webhook_retry_count <= 3]_vars

\* C13: at most 3 retry pushes are ever sent for a job, under any
\* interleaving of monitor runs, and every retry push sent is matched by an
\* increment of the job's retry count of its own.
C13_RetryPushesBounded ==
    \A j \in DOMAIN jobs :
        /\ retryPushes[j] <= 3
        /\ retryPushes[j] <= jobs[j].webhook_retry_count

\* ======================================================== webhook delivery
\* no invocation of the worker or of the monitor is in flight
Quiescent ==
    /\ \A w \in Workers : workers[w].pc = "idle"
    /\ \A m \in Monitors : monitors[m].pc = "idle"

C15_PushFailureHarmless ==
    [][\A j \in DOMAIN jobs :
          /\ \A w \in Workers :
                ( SendWebhook(w) /\ workers[w].id = j /\ ~receiver )
                   => /\ jobs' = jobs
                      /\ jobs'[j].status = "completed"
                      /\ jobs'[j].response_payload = Processed
                      /\ resp' = Response("process", j, 200, "success", NoBody)
                      /\ workers'[w].pc = "idle"
          /\ \A m \in Monitors :
                ( RetryPush(m, j) /\ ~receiver )
                   => /\ jobs' = jobs
                      /\ jobs'[j].status = "completed"
                      /\ jobs'[j].response_payload = Processed
                      /\ monitors'[m].bad = monitors[m].bad + 1
                      /\ monitors'[m].good = monitors[m].good]_vars

\* the worker has just answered success after a push that was rejected
C15_Witness ==
    /\ resp.op = "process" /\ resp.code = 200 /\ resp.msg = "success"
    /\ pushes[resp.id] = 1
    /\ ~delivered[resp.id]
    /\ jobs[resp.id].status = "completed"

\* the columns of a row the monitor writes
RetryColumns == {"webhook_retry_count", "last_webhook_retry_at"}

\* C16: a step of the monitor deletes no row and changes no column of any
\* row other than the retry count and the last-retry timestamp; a job whose
\* retry count it has brought to 3 is still completed with fetched_at null.
C16_MonitorFrame ==
    [][MonitorSteps(Monitors) =>
          /\ DOMAIN jobs' = DOMAIN jobs
          /\ \A j \in DOMAIN jobs :
                /\ \A f \in DOMAIN jobs[j] \ RetryColumns :
                      jobs'[j][f] = jobs[j][f]
                /\ jobs'[j].webhook_retry_count >= 3
                      => /\ jobs'[j].status = "completed"
                         /\ jobs'[j].fetched_at = NoTime]_vars

\* a job has used up its retry budget and is completed and not fetched
C16_Witness ==
    /\ Quiescent
    /\ \E j \in DOMAIN jobs :
          /\ jobs[j].webhook_retry_count = 3
          /\ retryPushes[j] = 3
          /\ jobs[j].status = "completed"
          /\ jobs[j].fetched_at = NoTime
          /\ jobs[j].last_webhook_retry_at # NoTime

\* the notices sent so far for job j that carry status st: both senders put
\* the literal status 'completed' in the body
Notices(j, st) == IF st = PushStatus THEN pushes[j] + retryPushes[j] ELSE 0

\* C17: when a job has reached a terminal status and the invocation that
\* brought it there has ended, a notice carrying the job id and that status
\* has been sent; in particular a failed job has had a status=failed notice.
C17_TerminalNoticeSent ==
    \A j \in DOMAIN jobs :
        ( jobs[j].status \in Terminal /\ Quiescent )
        => Notices(j, jobs[j].status) >= 1

\* C18: a submitted job that is processed once (one trigger, one upstream
\* call, which succeeds) and is completed has had its webhook fired at most
\* once, counting the worker's push and every later monitor run's pushes,
\* and a status lookup of it returns the result and leaves fetched_at set.
C18_EndToEnd ==
    \A j \in DOMAIN jobs :
        ( /\ jobs[j].status = "completed"
          /\ upstream[j].queued = 1
          /\ upstream[j].processing = 0 )
        => /\ pushes[j] + retryPushes[j] <= 1
           /\ ( resp.op = "status" /\ resp.id = j /\ resp.code = 200 )
                 => /\ resp.body.response = Processed
                    /\ jobs[j].fetched_at # NoTime

\* C19: pushes are rate limited: a step that sends a push, from the worker
\* or from the monitor, is taken only when no push was sent before or the
\* last one was sent at least 10 seconds earlier.
C19_RateLimited ==
    [][( pushes' # pushes \/ retryPushes' # retryPushes )
          => ( lastPushAt = NoTime \/ now - lastPushAt >= 10 )]_vars

\* =========================================================== upstream call
\* C20: one callClaudeAPI call makes at most 3 attempts; the wait before
\* retry k is min(1000 * 2^(k-1), 5000) ms; a call all of whose attempts
\* ended in a retryable failure (429, 500, 502, 503, 504, timeout, network
\* error) has made exactly 3 attempts with waits of 1000 and 2000 ms and
\* throws; the catch block then stores status failed and the error message.
C20_RetryPolicy ==
    [][\A w \in Workers :
          LET c == calls'[w]
              retryable(o) ==
                  \/ o.kind = "response" /\ o.status \in {429, 500, 502, 503, 504}
                  \/ o.kind \in {"AbortError", "NetworkError"}
              exhausted(cl) ==
                  /\ cl.done
                  /\ Len(cl.outs) >= 1
                  /\ \A k \in 1..Len(cl.outs) : retryable(cl.outs[k])
          IN  /\ Len(c.outs) <= 3
              /\ Len(c.outs) >= 1 => Len(c.delays) = Len(c.outs) - 1
              /\ \A k \in 1..Len(c.delays) :
                    c.delays[k] = IF 1000 * 2 ^ (k - 1) < 5000
                                  THEN 1000 * 2 ^ (k - 1) ELSE 5000
              /\ exhausted(c)
                    => /\ Len(c.outs) = 3
                       /\ c.delays = <<1000, 2000>>
              /\ ( exhausted(c) /\ c # calls[w] )
                    => /\ workers'[w].pc = "catch"
                       /\ workers'[w].err # NoVal
              /\ ( /\ CatchWrite(w)
                   /\ exhausted(calls[w])
                   /\ workers[w].id \in DOMAIN jobs )
                    => /\ jobs'[workers[w].id].status = "failed"
                       /\ jobs'[workers[w].id].error_message = workers[w].err
                       /\ jobs'[workers[w].id].error_message # NoVal]_vars

\* a call has failed after three 503 answers and the job is stored as failed
C20_Witness ==
    \E w \in Workers, j \in DOMAIN jobs :
        /\ workers[w].pc = "idle"
        /\ calls[w].done
        /\ calls[w].outs = << Http(503, FALSE), Http(503, FALSE), Http(503, FALSE) >>
        /\ calls[w].delays = <<1000, 2000>>
        /\ jobs[j].status = "failed"
        /\ jobs[j].error_message = ErrUpstream
        /\ resp.op = "process" /\ resp.code = 500

C22_MalformedFailsFast ==
    [][\A w \in Workers :
          LET id == workers[w].id
              malformed ==
                  /\ id \in DOMAIN jobs
                  /\ \/ ~jobs[id].request_payload.model
                     \/ jobs[id].request_payload.messages # "some"
          IN  /\ ( workers[w].pc = "call" /\ calls'[w] # calls[w] )
                    => ~malformed
              /\ ( MarkProcessing(w) /\ malformed )
                    => /\ workers'[w].pc = "catch"
                       /\ workers'[w].err # NoVal
                       /\ workers'[w].err # ErrUpstream
                       /\ calls' = calls
              /\ ( CatchWrite(w) /\ malformed )
                    => /\ jobs'[id].status = "failed"
                       /\ jobs'[id].error_message = workers[w].err
                       /\ jobs'[id].error_message # NoVal
                       /\ jobs'[id].response_payload = NoVal]_vars

\* a job without a model has been stored as failed with the validation
\* error, and no fetch has been made
C22_Witness ==
    \E j \in DOMAIN jobs :
        /\ ~jobs[j].request_payload.model
        /\ jobs[j].request_payload.claudeRequest
        /\ jobs[j].status = "failed"
        /\ jobs[j].error_message = "Invalid claudeRequest: missing model field"
        /\ upstream[j].queued = 1
        /\ \A w \in Workers : calls[w] = IdleCall /\ workers[w].pc = "idle"

\* C23: when the upstream call of a worker has ended in an error, the catch
\* block captures it in the job record: its write leaves the job with
\* status failed, a non-null error message and no result.
C23_ErrorCaptured ==
    [][\A w \in Workers :
          ( /\ CatchWrite(w)
            /\ workers[w].id \in DOMAIN jobs
            /\ workers[w].err \notin {NoVal, ErrNotFound, ErrDbUpdate, ErrWebhook} )
          => LET r == jobs'[workers[w].id]
             IN  /\ r.status = "failed"
                 /\ r.error_message # NoVal
                 /\ r.response_payload = NoVal]_vars

\* ============================================================== dispatcher
\* the submission bodies that lack the job id, the callback URL or the token
MissingFieldBodies ==
    { body \in Bodies :
        ~body.requestId \/ ~body.codaWebhookUrl \/ ~body.codaApiToken }

\* what the handler's field check finds for these bodies
MissingFieldChecks == { RequiredPresent(body) : body \in MissingFieldBodies }

C25_ValidSubmissionQueued ==
    [][\A id \in JobIds, body \in Bodies, trig \in TriggerFates :
          ( /\ body.requestId /\ body.codaWebhookUrl /\ body.codaApiToken
            /\ id \notin DOMAIN jobs
            /\ QueueRequest(id, RequiredPresent(body), ValidPayload, trig) )
          => /\ DOMAIN jobs' = DOMAIN jobs \cup {id}
             /\ \A j \in DOMAIN jobs : jobs'[j] = jobs[j]
             /\ jobs'[id].status = "queued"
             /\ jobs'[id].response_payload = NoVal
             /\ jobs'[id].error_message = NoVal
             /\ jobs'[id].processing_started_at = NoTime
             /\ jobs'[id].completed_at = NoTime
             /\ jobs'[id].fetched_at = NoTime
             /\ trigger'[id] = trig
             /\ resp' = Response("queue", id, 200, "queued", NoBody)]_vars

\* a submission has just been acknowledged although its trigger was lost
C25_Witness ==
    /\ resp.op = "queue" /\ resp.code = 200
    /\ resp.id \in DOMAIN jobs
    /\ jobs[resp.id].status = "queued"
    /\ trigger[resp.id] = "lost"

\* C26: a queued job whose auto-trigger failed or was lost stays as it was
\* inserted until a worker marks it: no other step changes its row. A later
\* trigger for it, however late, is treated as a first one: the invocation
\* goes on to the mark step, which stores processing and starts the upstream
\* call, and the invocation's final write stores completed or failed.
C26_ManualTriggerRecovers ==
    [][\A j \in DOMAIN jobs :
          trigger[j] \in {"failed", "lost"}
          => /\ ( /\ jobs[j].status = "queued"
                  /\ ~ \E w \in Workers :
                        /\ workers[w].id = j
                        /\ MarkProcessing(w) \/ CatchWrite(w) )
                   => /\ j \in DOMAIN jobs'
                      /\ jobs'[j] = jobs[j]
             /\ \A w \in Workers :
                   /\ ( ProcessSelect(w, j) /\ jobs[j].status = "queued" )
                         => /\ resp' = NoResp
                            /\ workers'[w].pc = "mark"
                            /\ workers'[w].id = j
                            /\ jobs' = jobs
                   /\ ( /\ MarkProcessing(w) /\ workers[w].id = j
                        /\ jobs[j].status = "queued" )
                         => /\ jobs'[j].status = "processing"
                            /\ jobs'[j].processing_started_at = now
                            /\ upstream'[j].queued = upstream[j].queued + 1
                            /\ workers'[w].pc = "call"
                   /\ ( CompleteWrite(w, TRUE) /\ workers[w].id = j )
                         => /\ jobs'[j].status = "completed"
                            /\ jobs'[j].response_payload = Processed
                   /\ ( CatchWrite(w) /\ workers[w].id = j )
                         => /\ jobs'[j].status = "failed"
                            /\ jobs'[j].error_message # NoVal]_vars

\* a job whose trigger was lost was picked up by a trigger at least 20
\* minutes after its submission and has been completed
C26_Witness ==
    \E j \in DOMAIN jobs :
        /\ trigger[j] = "lost"
        /\ jobs[j].status = "completed"
        /\ jobs[j].processing_started_at - jobs[j].created_at >= 1200
        /\ upstream[j].queued = 1
        /\ upstream[j].processing = 0

\* C27: for every job, created_at, processing_started_at and completed_at
\* are each written at most once (a non-null value is never overwritten),
\* and created_at <= processing_started_at <= completed_at whenever they
\* are set
Timestamps == {"created_at", "processing_started_at", "completed_at"}

C27_TimestampsWrittenOnce ==
    [][\A j \in DOMAIN jobs :
          /\ j \in DOMAIN jobs'
             => \A f \in Timestamps :
                   jobs[j][f] # NoTime => jobs'[j][f] = jobs[j][f]
          /\ LET r == jobs[j]
             IN  /\ r.processing_started_at # NoTime
                       => r.created_at <= r.processing_started_at
                 /\ r.completed_at # NoTime
                       => r.created_at <= r.completed_at
                 /\ ( r.processing_started_at # NoTime
                      /\ r.completed_at # NoTime )
                       => r.processing_started_at <= r.completed_at]_vars

\* C28: one worker's upstream phase (all attempts, each with its own
\* 11-minute timeout, plus the backoff waits) never takes longer than the
\* processing budget of the invocation (maxDuration, 800 s), whatever the
\* attempts' outcomes, repeated timeouts included
C28_UpstreamWithinBudget ==
    \A w \in Workers : CallDeadlineMs(calls[w]) <= maxDuration * 1000

C30_NumberedInFirstSeenOrder ==
    \A r \in 1..Len(formatted) :
        LET raw == claudeResponse
            out == formatted[r]
            K == FirstSeen(ContentKeys(raw.content))
            k == Len(K)
            last == Len(raw.content) + 1
        IN  IF k = 0
            THEN out = raw
            ELSE /\ Len(out.content) = last
                 /\ \A i \in 1..Len(raw.content) :
                       LET keys == ItemKeys(raw.content[i])
                           text == out.content[i].text
                       IN  /\ MarkerNumbers(text)
                                = [j \in 1..Len(keys) |-> NumberOf(K, keys[j])]
                           /\ \A j \in 1..Len(text) :
                                 /\ text[j].k \in {"plain", "marker"}
                                 /\ text[j] # SourcesHeader
                 /\ LET S == out.content[last].text
                    IN  /\ Len(S) = k + 1
                        /\ S[1] = SourcesHeader
                        /\ \A n \in 1..k :
                              /\ S[n + 1].k = "source"
                              /\ S[n + 1].n = n
                              /\ LineNames(S[n + 1], K[n], raw)

\* ============================================================== normalizer
\* the content of the response as the cap step receives it
FormattedContent(in) ==
    ( IF in.payload.responseOptions.webSearch
      THEN formatCitationsInPlace(in.response)
      ELSE in.response ).content

\* a string is within the cap or ends with a truncation marker
Bounded(str) == str.len <= TextCapLimit \/ str.marker

\* C31: every text-bearing string of a normalized response (content text,
\* thinking text, cited text of citations, the appended Sources text) is at
\* most 45,000 characters long or ends with a truncation marker, for every
\* raw response and every combination of response options
C31_TextFieldsBounded ==
    \A r \in 1..Len(normalized) :
        LET c == normalized[r].content
        IN  IF c.typeof = "string"
            THEN Bounded(c)
            ELSE \A i \in 1..Len(c.items) :
                    /\ Bounded(c.items[i].text)
                    /\ Bounded(c.items[i].thinking)
                    /\ \A j \in 1..Len(c.items[i].citations) :
                          Bounded(c.items[i].citations[j].cited_text)

\* C32: whenever the normalizer caps a string (it stores fewer characters
\* than the string had), the stored string ends with a truncation marker
C32_CappedIsMarked ==
    \A r \in 1..Len(normalized) :
        LET c == normalized[r].content
            before == FormattedContent(normInput[1])
        IN  IF c.typeof = "string"
            THEN ( Len(before) > 0 /\ c.len > 0
                   /\ c.len < TextLen(before[1].text) ) => c.marker
            ELSE \A i \in 1..Len(c.items) :
                    /\ c.items[i].text.len < TextLen(before[i].text)
                          => c.items[i].text.marker
                    /\ ( /\ before[i].type = "thinking"
                         /\ c.items[i].thinking.len < StrLen(before[i].thinking) )
                          => c.items[i].thinking.marker

\* x is a whole number of millionths nearest to num / 100 millionths
Nearest(x, num) == 100 * x - num <= 50 /\ num - 100 * x <= 50

\* C33: the cost block is attached if and only if both the price table and
\* the token usage are present, and then inputCost, outputCost and
\* totalCost are inputTokens/1e6 * inputRate, outputTokens/1e6 * outputRate
\* and their sum, each rounded to 6 decimals (1000 and 500 tokens at 3.00
\* and 15.00 give 0.003, 0.0075 and 0.0105)
C33_CostBlock ==
    \A r \in 1..Len(normalized) :
        LET out == normalized[r]
            u == normInput[1].response.usage
            p == normInput[1].payload.modelPricing
        IN  /\ ("cost" \in DOMAIN out) <=> (p.present /\ u.present)
            /\ "cost" \in DOMAIN out
                  => /\ Nearest(out.cost.inputCost, u.input_tokens * p.input)
                     /\ Nearest(out.cost.outputCost, u.output_tokens * p.output)
                     /\ Nearest(out.cost.totalCost,
                                u.input_tokens * p.input
                                + u.output_tokens * p.output)
                     /\ ( /\ u.input_tokens = 1000 /\ u.output_tokens = 500
                          /\ p.input = 300 /\ p.output = 1500 )
                           => /\ out.cost.inputCost = 3000
                              /\ out.cost.outputCost = 7500
                              /\ out.cost.totalCost = 10500

\* a cost block whose parts fall between two millionths and whose total
\* does not
C33_Witness ==
    /\ Len(normalized) = 1
    /\ "cost" \in DOMAIN normalized[1]
    /\ normInput[1].response.usage = Usage(TRUE, 1, 1)
    /\ normalized[1].cost.inputCost = 1
    /\ normalized[1].cost.totalCost = 2

\* C34: the normalized result has one top-level structure whatever response
\* options were enabled: for the same raw response, the set of top-level
\* fields and the type of the content field are the same for every
\* combination of the wrapper, citation and structured-content flags
C34_OneShape ==
    \A r \in 1..Len(normalized), o \in ResponseOptions :
        LET in == normInput[1]
            other == processClaudeResponseWithSizeControl(
                         in.response,
                         [in.payload EXCEPT !.responseOptions = o],
                         TRUE, now)
        IN  /\ DOMAIN other = DOMAIN normalized[r]
            /\ other.content.typeof = normalized[r].content.typeof

C36_RetryTrackedBeforePush ==
    [][/\ \A j \in JobIds :
             retryPushes'[j] > retryPushes[j]
             => \E m \in Monitors : RetryPush(m, j)
       /\ \A m \in Monitors, j \in JobIds :
             ( monitors[m].pc = "batch" /\ j \in DOMAIN monitors[m].sel )
             => LET st == monitors[m].sel[j].st
                IN  /\ ( /\ monitors'[m].pc = "batch"
                         /\ monitors'[m].sel[j].st = "push" /\ st # "push" )
                          => /\ RetryUpdate(m, j, TRUE)
                             /\ retryPushes' = retryPushes
                             /\ jobs'[j].webhook_retry_count
                                   = jobs[j].webhook_retry_count + 1
                             /\ jobs'[j].last_webhook_retry_at = now
                    /\ RetryUpdate(m, j, FALSE)
                          => /\ retryPushes' = retryPushes
                             /\ jobs' = jobs
                             /\ monitors'[m].sel[j].st = "done"
                             /\ monitors'[m].bad = monitors[m].bad + 1
                    /\ st = "done" => ~RetryPush(m, j)
                    /\ MonitorFinish(m)
                          => resp'.summary.failed = monitors[m].bad]_vars

\* a run whose update failed has finished: one job found, none pushed, one
\* counted as failed
C36_Witness ==
    /\ resp.op = "monitor" /\ resp.code = 200
    /\ resp.summary.totalFound = 1
    /\ resp.summary.failed = 1
    /\ \A j \in JobIds : retryPushes[j] = 0

\* the selected rows in the batches after the one the run is at
Unreached(mon) ==
    { mon.order[i] : i \in { k \in 1..Len(mon.order) : k > mon.batch * batchSize } }

\* C37: while a monitor run is under way, no step gives a row of a batch the
\* run has not reached a push or changes its webhook_retry_count or
\* last_webhook_retry_at; a run that answers with its summary before its
\* last batch does so more than 100 s after it began, has started
\* retryWebhook for none of the rows it did not reach, counts only the rows
\* of the batches it reached as processed, and leaves every unreached row
\* with the retry count it was selected with, so that the row is selected
\* again by a run that starts now if it is still inside the time window
C37_UnreachedUntouched ==
    [][\A m \in DeliveryMonitors :
         monitors[m].pc = "batch" =>
           LET mon == monitors[m]
               stays == IF monitors'[m].pc = "batch"
                        THEN Unreached(monitors'[m])
                        ELSE Unreached(mon)
           IN  /\ \A id \in stays :
                     /\ retryPushes'[id] = retryPushes[id]
                     /\ jobs'[id].webhook_retry_count = jobs[id].webhook_retry_count
                     /\ jobs'[id].last_webhook_retry_at
                          = jobs[id].last_webhook_retry_at
               /\ ( /\ monitors'[m].pc = "idle"
                    /\ resp'.code = 200
                    /\ mon.batch < BatchCount(mon.order) )
                  => /\ now - mon.start > MonitorBudgetSec
                     /\ resp'.summary.totalFound = Len(mon.order)
                     /\ resp'.summary.processed = mon.batch * batchSize
                     /\ \A id \in Unreached(mon) :
                           /\ mon.sel[id].st = "update"
                           /\ jobs'[id].webhook_retry_count = mon.sel[id].cnt
                           /\ jobs'[id].completed_at > now' - RetentionSec
                                => id \in Unfetched(jobs', now')
      ]_vars

\* a run has answered with fewer rows processed than found, and a row it did
\* not reach still has the retry count and the pushes it had before the run
\* and is selected by the next run
C37_Witness ==
    /\ resp.op = "monitor"
    /\ resp.code = 200
    /\ resp.summary.processed < resp.summary.totalFound
    /\ \E id \in Unfetched(jobs, now) :
          /\ jobs[id].webhook_retry_count = MaxWebhookRetries - 1
          /\ jobs[id].last_webhook_retry_at < now - MonitorBudgetSec
          /\ retryPushes[id] = MaxWebhookRetries - 1
    /\ \E id \in DOMAIN jobs : jobs[id].last_webhook_retry_at >= now - monitorMaxDuration

\* the invocation has marked its job and not yet written a terminal status
PastMark(w) == workers[w].pc \in {"call", "complete", "webhook"}

\* the invocation w takes the decision to reclaim job id in this step: its
\* select returned the job as processing and it goes on to mark it
Reclaims(w, id) ==
    /\ workers[w].pc = "idle"
    /\ workers'[w].pc = "mark"
    /\ workers'[w].id = id
    /\ workers'[w].seen = "processing"

\* no invocation that has marked job id is within its maxDuration
NoneExecuting(id) ==
    \A v \in Workers : (workers[v].id = id /\ PastMark(v)) => ~Alive(v)

\* no two invocations are in callClaudeAPI for the same job
OneInUpstream ==
    \A w, v \in Workers :
        ( /\ workers[w].pc = "call"
          /\ workers[v].pc = "call"
          /\ workers[w].id = workers[v].id )
        => w = v

\* C38: an invocation reclaims a job as stuck only when no invocation that
\* marked the job is still executing (within its maxDuration), and no step
\* leaves two invocations in their upstream phase (callClaudeAPI) for the
\* same job
C38_OneWorkerInUpstream ==
    [][/\ \A w \in Workers, id \in JobIds :
             Reclaims(w, id) => NoneExecuting(id)
       /\ OneInUpstream']_vars


\* C39: a submission with all required fields whose id already has a row is
\* answered with the error response (500 "Failed to queue request", not the
\* acknowledgement), leaves the table as it is (the existing row's status,
\* payload, result and error included) and fires no trigger
C39_DuplicateIdRejected ==
    [][\A id \in JobIds, trig \in TriggerFates :
          (id \in DOMAIN jobs /\ QueueRequest(id, TRUE, ValidPayload, trig))
          => /\ resp'.op = "queue"
             /\ resp'.code = 500
             /\ resp'.msg = "Failed to queue request"
             /\ jobs' = jobs
             /\ trigger' = trigger]_vars

\* a submission of the id of a job that is already completed was refused
C39_Witness ==
    /\ resp.op = "queue"
    /\ resp.code = 500
    /\ resp.id \in DOMAIN jobs
    /\ jobs[resp.id].status = "completed"
    /\ jobs[resp.id].response_payload = Processed

\* the invocation has run its 'mark as processing' update and not returned
Marked(w) ==
    \/ PastMark(w)
    \/ workers[w].pc = "catch" /\ workers[w].err # ErrNotFound

\* C40: an invocation that has marked its job and is not stopped by the
\* platform can always take a next step, whatever the upstream call, the
\* normalizer, the completed write or the push did; it reaches the push only
\* by a step that stores completed; when it returns, it returns either from
\* the push, or from the catch block by a step that stores failed; and when
\* it returns the job has reached completed or failed (completed_at is set)
\* and has that status still, unless another invocation has marked the job
\* again after the terminal write
C40_ReturnsAfterTerminalWrite ==
    [][\A w \in Workers :
         LET id == workers[w].id
         IN  (Marked(w) /\ Alive(w)) =>
               /\ ENABLED OutcomeStep(w)
               /\ workers'[w] # workers[w] =>
                     /\ workers'[w].pc \in {"complete", "webhook", "catch", "idle"}
                     /\ ( workers'[w].pc = "webhook" /\ workers[w].pc # "webhook" )
                          => jobs'[id].status = "completed"
                     /\ workers'[w].pc = "idle" =>
                           /\ \/ workers[w].pc = "webhook"
                              \/ /\ workers[w].pc = "catch"
                                 /\ jobs'[id].status = "failed"
                           /\ jobs'[id].completed_at # NoTime
                           /\ \/ jobs'[id].status \in {"completed", "failed"}
                              \/ /\ jobs'[id].status = "processing"
                                 /\ jobs'[id].processing_started_at
                                      >= jobs'[id].completed_at
      ]_vars

\* an invocation whose normalizer threw has returned 500 and its job is failed
\* with the normalizer's error
C40_Witness ==
    /\ resp.op = "process"
    /\ resp.code = 500
    /\ resp.msg = ErrNormalizer
    /\ jobs[resp.id].status = "failed"
    /\ jobs[resp.id].error_message = ErrNormalizer
====
